---- MODULE Spec2Model ----
(***************************************************************************)
(* A model of mdx_latex.py, the LaTeX output extension of python-markdown: *)
(* the entity escaper, the tree walker, the math post-processor, the table *)
(* converter and the table post-processor.                                 *)
(*                                                                         *)
(* A Python string is a sequence of one-character strings, so that the     *)
(* character-level behaviour of str.replace, str.strip and re.sub is part  *)
(* of the model.  The backquote, which a TLA+ string cannot hold, is the    *)
(* string "bq".                                                            *)
(***************************************************************************)
EXTENDS Integers, Sequences, FiniteSets, TLC

VARIABLES
  etext, eout, epc,                       \* escape_latex_entities: argument, `out`, position
  instr, out, mpc,                        \* MathTextPostProcessor.run: argument, `out`, position
  tinstr, dom, numcols, maxcols, tout, tpc,   \* Table2Latex: convert's argument, parsed DOM, fields, result, position
  tentry,                                 \* the fields and the position as the last call of convert left them
  doc, nontables, tables, new_blocks, ppout, ppc,  \* TableTextPostProcessor.run: argument, locals, result, position
  wbefore, wroot, wpc                     \* LaTeXTreeProcessor.run: the tree before the walk, the tree, position

evars == <<etext, eout, epc>>
mvars == <<instr, out, mpc>>
tvars == <<tinstr, dom, numcols, maxcols, tout, tpc, tentry>>
pvars == <<doc, nontables, tables, new_blocks, ppout, ppc>>
wvars == <<wbefore, wroot, wpc>>
vars == <<evars, mvars, tvars, pvars, wvars>>

(***************************************************************************)
(* Bounds of the model.                                                    *)
(***************************************************************************)
MaxEscPieces == 3      \* pieces in an argument of escape_latex_entities
MaxMathPieces == 4     \* pieces in an argument of MathTextPostProcessor.run
MaxCells == 2          \* cells in a table row
MaxRows == 2           \* rows in a table
MaxSegments == 3       \* segments (text, tables) in a document
MaxKids == 2           \* children of an element of the walker's tree

(***************************************************************************)
(* Python strings.                                                         *)
(***************************************************************************)
\* The whitespace characters of str.strip() and of \s that the inputs use.
Whitespace == {" ", "\n", "\t"}

Max(a, b) == IF a > b THEN a ELSE b

RECURSIVE Concat(_)
\* ''.join(ss)
Concat(ss) == IF ss = <<>> THEN <<>> ELSE Head(ss) \o Concat(Tail(ss))

RECURSIVE Join(_, _)
\* sep.join(ss)
Join(sep, ss) ==
  IF ss = <<>> THEN <<>>
  ELSE IF Len(ss) = 1 THEN ss[1]
  ELSE ss[1] \o sep \o Join(sep, Tail(ss))

RECURSIVE Repeat(_, _)
\* s * n
Repeat(s, n) == IF n <= 0 THEN <<>> ELSE s \o Repeat(s, n - 1)

\* s[i-1:].startswith(p), for a 1-based i
HasAt(s, i, p) ==
  /\ i >= 1
  /\ i + Len(p) - 1 <= Len(s)
  /\ \A k \in 1..Len(p) : s[i + k - 1] = p[k]

\* s.startswith(p)
StartsWith(s, p) == HasAt(s, 1, p)

\* s.endswith(p)
EndsWith(s, p) == Len(p) <= Len(s) /\ HasAt(s, Len(s) - Len(p) + 1, p)

\* p in s
Contains(s, p) == \E i \in 1..(Len(s) + 1) : HasAt(s, i, p)

\* s.strip() == ''
IsBlank(s) == s = <<>> \/ \A i \in 1..Len(s) : s[i] \in Whitespace

\* s.strip()
Strip(s) ==
  IF s = <<>> \/ IsBlank(s) THEN <<>>
  ELSE LET a == CHOOSE i \in 1..Len(s) :
                  s[i] \notin Whitespace /\ \A k \in 1..(i - 1) : s[k] \in Whitespace
           b == CHOOSE i \in 1..Len(s) :
                  s[i] \notin Whitespace /\ \A k \in (i + 1)..Len(s) : s[k] \in Whitespace
       IN  SubSeq(s, a, b)

\* The least element of S, the matching indices in i..n, or n + 1.
FirstWhere(i, n, S) ==
  IF S = {} THEN n + 1 ELSE CHOOSE j \in S : \A k \in S : j <= k

RECURSIVE ReplaceFrom(_, _, _, _)
\* s[i-1:] with the occurrences of old replaced, the leftmost first
ReplaceFrom(s, i, old, new) ==
  LET j == FirstWhere(i, Len(s), {x \in i..Len(s) : HasAt(s, x, old)})
  IN  IF j > Len(s) THEN SubSeq(s, i, Len(s))
      ELSE SubSeq(s, i, j - 1) \o new \o ReplaceFrom(s, j + Len(old), old, new)

\* s.replace(old, new), for a non-empty old: the occurrences are found
\* left to right in s and do not overlap; the result is not scanned again.
Replace(s, old, new) == IF s = <<>> THEN s ELSE ReplaceFrom(s, 1, old, new)

\* str(n), for n >= 0
Digit == <<"0", "1", "2", "3", "4", "5", "6", "7", "8", "9">>

RECURSIVE IntToStr(_)
IntToStr(n) ==
  IF n < 10 THEN <<Digit[n + 1]>> ELSE IntToStr(n \div 10) \o <<Digit[(n % 10) + 1]>>

\* int(s), for a string of decimal digits; -1 stands for the ValueError
RECURSIVE StrToInt(_)
StrToInt(s) ==
  IF s = <<>> THEN -1
  ELSE LET d == IF \E k \in 1..10 : Digit[k] = s[Len(s)]
                THEN (CHOOSE k \in 1..10 : Digit[k] = s[Len(s)]) - 1 ELSE -1
       IN  IF d < 0 THEN -1
           ELSE IF Len(s) = 1 THEN d
           ELSE LET r == StrToInt(SubSeq(s, 1, Len(s) - 1))
                IN  IF r < 0 THEN -1 ELSE 10 * r + d

\* The strings made of at most n pieces of P, pieces in any order.
RECURSIVE PieceStrings(_, _)
PieceStrings(P, n) ==
  IF n = 0 THEN {<<>>}
  ELSE LET shorter == PieceStrings(P, n - 1)
       IN  shorter \cup {s \o p : s \in shorter, p \in P}

(***************************************************************************)
(* re.sub: the matches are found left to right and do not overlap; after a *)
(* match the scan resumes at the match's end, so a character a match has   *)
(* consumed is not available to the next one.  MatchEnd(s, i) is the index *)
(* of the last character of the match that starts at i, or 0 when there is *)
(* none (no pattern of the program matches the empty string).              *)
(***************************************************************************)
\* `$` under re.MULTILINE at the position before s[i]: the end of the string
\* or just before a newline.
AtLineEnd(s, i) == i = Len(s) + 1 \/ (i <= Len(s) /\ s[i] = "\n")

\* `^` under re.MULTILINE at the position before s[i]
AtLineStart(s, i) == i = 1 \/ (i <= Len(s) + 1 /\ s[i - 1] = "\n")

\* The end of the whitespace run that starts at i (i - 1 when s[i] is none).
SpaceRunEnd(s, i) == FirstWhere(i, Len(s), {j \in i..Len(s) : s[j] \notin Whitespace}) - 1

\* `\s*$` (MULTILINE) from position i: \s* is greedy and gives back one
\* character at a time until `$` holds.  The index of the last character
\* matched (i - 1 for an empty match), or -1 when there is no match.
SpacesToLineEnd(s, i) ==
  LET r == SpaceRunEnd(s, i)
      ends == {e \in (i - 1)..r : AtLineEnd(s, e + 1)}
  IN  IF ends = {} THEN -1 ELSE CHOOSE e \in ends : \A f \in ends : f <= e

\* The index of the first '$' at or after i, or Len(s) + 1.
NextDollar(s, i) == FirstWhere(i, Len(s), {j \in i..Len(s) : s[j] = "$"})

(***************************************************************************)
(* The entity escaper (lines 65-114).                                      *)
(***************************************************************************)
\* html_tags of remove_html_entities
html_tags == <<<<"h", "1">>, <<"h", "2">>, <<"h", "3">>, <<"h", "4">>, <<"p">>, <<"l", "i">>, <<"e", "m">>>>

RECURSIVE RemoveTags(_, _)
\* the loop over html_tags: the open marker, then the close marker of each tag
RemoveTags(s, k) ==
  IF s = <<>> \/ k > Len(html_tags) THEN s
  ELSE RemoveTags(Replace(Replace(s, <<"<">> \o html_tags[k] \o <<">">>, <<>>),
                          <<"<", "/">> \o html_tags[k] \o <<">">>, <<>>), k + 1)

\* The replacements of lines 83-86, innermost first, then the loop.
remove_html_entities(text) ==
  RemoveTags(
    Replace(
      Replace(
        Replace(
          Replace(text, <<"&", "a", "m", "p", ";">>, <<"\\", "&">>),               \* '&amp;' -> '\&'
          <<"&", "l", "t", ";">>, <<"<">>),
        <<"&", "g", "t", ";">>, <<"<">>),
      <<"&", "q", "u", "o", "t", ";">>, <<"\"">>),
    1)

unescape_latex_entities(text) == Replace(text, <<"\\", "&">>, <<"&">>)   \* '\&' -> '&'

\* start_single_quote_re = (^|\s|")'   (no MULTILINE: ^ is the start of the string)
StartSingleEnd(s, i) ==
  IF i = 1 /\ s[i] = "'" THEN i
  ELSE IF i < Len(s) /\ (s[i] \in Whitespace \/ s[i] = "\"") /\ s[i + 1] = "'" THEN i + 1
  ELSE 0

\* start_double_quote_re = (^|\s|'|`)"
StartDoubleEnd(s, i) ==
  IF i = 1 /\ s[i] = "\"" THEN i
  ELSE IF i < Len(s) /\ (s[i] \in Whitespace \/ s[i] = "'" \/ s[i] = "bq") /\ s[i + 1] = "\""
       THEN i + 1
  ELSE 0

\* end_double_quote_re = "(,|\.|\s|$)
EndDoubleEnd(s, i) ==
  IF s[i] # "\"" THEN 0
  ELSE IF i < Len(s) /\ (s[i + 1] \in {",", "."} \/ s[i + 1] \in Whitespace) THEN i + 1
  ELSE IF i = Len(s) THEN i
  ELSE 0

(***************************************************************************)
(* The patterns of MathTextPostProcessor.run (lines 305-317).              *)
(***************************************************************************)
\* pat = <p>\$\$([^\$]*)\$\$\s*$  (MULTILINE).  [^\$]* runs to the next '$',
\* which must open '$$'; the group is s[i+5 .. NextDollar - 1].
PatEnd(s, i) ==
  IF ~HasAt(s, i, <<"<", "p", ">", "$", "$">>) THEN 0
  ELSE LET j == NextDollar(s, i + 5)
       IN  IF ~HasAt(s, j, <<"$", "$">>) THEN 0
           ELSE Max(0, SpacesToLineEnd(s, j + 2))          \* 0 when `\s*$` fails

\* pat1 without its `^`: the variant C4 has to tell from Pat1End.
Pat1End_unanchored(s, i) ==
  IF ~HasAt(s, i, <<"$", "$">>) THEN 0
  ELSE LET j == NextDollar(s, i + 2)
       IN  IF ~HasAt(s, j, <<"$", "$">>) THEN 0
           ELSE Max(0, SpacesToLineEnd(s, j + 2))          \* 0 when `\s*$` fails

\* pat1 = ^\$\$([^\$]*)\$\$\s*$  (MULTILINE)
Pat1End(s, i) ==
  IF ~(AtLineStart(s, i) /\ HasAt(s, i, <<"$", "$">>)) THEN 0
  ELSE LET j == NextDollar(s, i + 2)
       IN  IF ~HasAt(s, j, <<"$", "$">>) THEN 0
           ELSE Max(0, SpacesToLineEnd(s, j + 2))          \* 0 when `\s*$` fails

\* pat2 = ([^\$])\$([^\$])
Pat2End(s, i) ==
  IF i + 2 <= Len(s) /\ s[i] # "$" /\ s[i + 1] = "$" /\ s[i + 2] # "$" THEN i + 2 ELSE 0

\* pat3 = \$\$([^\$]*)\$\$
Pat3End(s, i) ==
  IF ~HasAt(s, i, <<"$", "$">>) THEN 0
  ELSE LET j == NextDollar(s, i + 2)
       IN  IF HasAt(s, j, <<"$", "$">>) THEN j + 1 ELSE 0

\* \%(?!\s-*): -* matches no dash as well, so the lookahead fails exactly
\* when a whitespace character follows the '%'.
PercentEnd(s, i) ==
  IF s[i] = "%" /\ ~(i < Len(s) /\ s[i + 1] \in Whitespace) THEN i ELSE 0

\* repl_1 (lines 294-300)
repl_1(group1) ==
  LET text == unescape_latex_entities(group1)
      tmp == Strip(text)
  IN  IF StartsWith(tmp, <<"\\", "[">>) \/ StartsWith(tmp, <<"\\", "b", "e", "g", "i", "n">>) THEN text
      ELSE <<"\\", "[">> \o text \o <<"\\", "]">>

\* repl_2 (lines 301-303)
repl_2(group1) == <<"$">> \o unescape_latex_entities(group1) \o <<"$">>

MatchEnd(pat, s, i) ==
  CASE pat = "pat" -> PatEnd(s, i)
    [] pat = "pat1" -> Pat1End(s, i)
    [] pat = "pat2" -> Pat2End(s, i)
    [] pat = "pat3" -> Pat3End(s, i)
    [] pat = "percent" -> PercentEnd(s, i)
    [] pat = "start_single_quote_re" -> StartSingleEnd(s, i)
    [] pat = "start_double_quote_re" -> StartDoubleEnd(s, i)
    [] pat = "end_double_quote_re" -> EndDoubleEnd(s, i)

\* What replaces the match s[i..e]: the callback's result or the expanded template.
Replacement(pat, s, i, e) ==
  CASE pat = "pat" -> repl_1(SubSeq(s, i + 5, NextDollar(s, i + 5) - 1))
    [] pat = "pat1" -> repl_1(SubSeq(s, i + 2, NextDollar(s, i + 2) - 1))
    [] pat = "pat2" -> <<s[i], "\\", "$", s[e]>>                  \* '\g<1>\\$\g<2>'
    [] pat = "pat3" -> repl_2(SubSeq(s, i + 2, e - 2))
    [] pat = "percent" -> <<"\\", "%">>                                   \* '\\%'
    [] pat = "start_single_quote_re" -> SubSeq(s, i, e - 1) \o <<"bq">>     \* '\g<1>`'
    [] pat = "start_double_quote_re" -> SubSeq(s, i, e - 1) \o <<"bq", "bq">>    \* '\g<1>``'
    [] pat = "end_double_quote_re" -> <<"'", "'">> \o SubSeq(s, i + 1, e)      \* "''\g<1>"

RECURSIVE SubFrom(_, _, _)
\* s[i-1:] with the matches replaced: the leftmost match at or after i, then
\* the rest from that match's end
SubFrom(pat, s, i) ==
  LET match(j, e) ==
        IF j > Len(s) THEN SubSeq(s, i, Len(s))
        ELSE SubSeq(s, i, j - 1) \o Replacement(pat, s, j, e) \o SubFrom(pat, s, e + 1)
      from(j) == match(j, IF j > Len(s) THEN 0 ELSE MatchEnd(pat, s, j))
  IN  from(FirstWhere(i, Len(s), {x \in i..Len(s) : MatchEnd(pat, s, x) >= x}))

\* pattern.sub(repl, s)
re_sub(pat, s) == IF s = <<>> THEN s ELSE SubFrom(pat, s, 1)

\* The whole call as a function, for the callers (Table2Latex.get_text).
\* The steps of lines 96-102, innermost first.
escape_latex_entities(text) ==
  re_sub("end_double_quote_re",
    re_sub("start_double_quote_re",
      re_sub("start_single_quote_re",
        Replace(
          Replace(
            Replace(remove_html_entities(text), <<"%">>, <<"\\", "%">>),
            <<"&">>, <<"\\", "&">>),
          <<"#">>, <<"\\", "#">>))))

(***************************************************************************)
(* xml.dom.minidom.parseString, for the markup the table converter is      *)
(* given: elements with at most a colspan attribute, character data with   *)
(* the predefined entities.  A node is a record; a text node has the tag   *)
(* '#text' and its characters in `data`.                                   *)
(***************************************************************************)
TextTag == <<"#", "t", "e", "x", "t">>

TextNode(data) ==
  [tag |-> TextTag, data |-> data, hascolspan |-> FALSE, colspan |-> <<>>, kids |-> <<>>]

Element(tag, hascolspan, colspan, kids) ==
  [tag |-> tag, data |-> <<>>, hascolspan |-> hascolspan, colspan |-> colspan, kids |-> kids]

NoDom == TextNode(<<>>)

\* The index of the first c at or after i, or Len(s) + 1.
IndexOf(s, i, c) == FirstWhere(i, Len(s), {j \in i..Len(s) : s[j] = c})

\* Character data: an '&' must start one of the predefined entities.
RECURSIVE DecodeFrom(_, _)
DecodeFrom(s, i) ==
  LET j == IndexOf(s, i, "&")
      ent == IF HasAt(s, j, <<"&", "a", "m", "p", ";">>) THEN <<5, "&">>
             ELSE IF HasAt(s, j, <<"&", "l", "t", ";">>) THEN <<4, "<">>
             ELSE IF HasAt(s, j, <<"&", "g", "t", ";">>) THEN <<4, ">">>
             ELSE IF HasAt(s, j, <<"&", "q", "u", "o", "t", ";">>) THEN <<6, "\"">>
             ELSE <<0, "&">>
      rest == DecodeFrom(s, j + ent[1])
  IN  IF j > Len(s) THEN [ok |-> TRUE, data |-> SubSeq(s, i, Len(s))]
      ELSE IF ent[1] = 0 \/ ~rest.ok THEN [ok |-> FALSE, data |-> <<>>]
      ELSE [ok |-> TRUE, data |-> SubSeq(s, i, j - 1) \o <<ent[2]>> \o rest.data]

\* The attributes of a start tag: none, or colspan="value".
AttrsOK(attrs) ==
  \/ attrs = <<>>
  \/ /\ HasAt(attrs, 1, <<" ", "c", "o", "l", "s", "p", "a", "n", "=", "\"">>)
     /\ Len(attrs) >= 11
     /\ attrs[Len(attrs)] = "\""
     /\ \A k \in 11..(Len(attrs) - 1) : attrs[k] \notin {"\"", "<", "&"}

\* Where a tag opens and where an end tag starts.
IsOpen(s, k) == s[k] = "<" /\ ~HasAt(s, k, <<"<", "/">>)

IsClose(s, k) == HasAt(s, k, <<"<", "/">>)

\* How many elements that open in s[i..k-1] are still open at k.
Level(s, i, k) ==
  Cardinality({j \in i..(k - 1) : IsOpen(s, j)}) - Cardinality({j \in i..(k - 1) : IsClose(s, j)})

\* s[g] is the '>' that ends a tag.
TagEndsAt(s, g) ==
  s[g] = ">" /\ \E j \in 1..(g - 1) : s[j] = "<" /\ IndexOf(s, j + 1, ">") = g

\* Where the nodes of the content s[i..e] start: a tag that opens, or
\* character data after a tag, outside every element of the content.
NodeStarts(s, i, e) ==
  {k \in i..e : /\ IsOpen(s, k) \/ (s[k] # "<" /\ (k = i \/ TagEndsAt(s, k - 1)))
                /\ Level(s, i, k) = 0}

RECURSIVE ParseNode(_, _, _), ParseNodes(_, _, _)
\* The node that starts at s[k] in a content that ends at e: an element
\* with its content and its end tag, or the character data up to the next
\* tag.  `last` is where the node ends.
ParseNode(s, k, e) ==
  IF s[k] = "<" THEN
    LET g == IndexOf(s, k + 1, ">")
        inner == SubSeq(s, k + 1, g - 1)
        sp == IndexOf(inner, 1, " ")
        name == SubSeq(inner, 1, sp - 1)
        attrs == SubSeq(inner, sp, Len(inner))
        c == FirstWhere(g + 1, e, {j \in (g + 1)..e : IsClose(s, j) /\ Level(s, k, j) = 1})
        close == <<"<", "/">> \o name \o <<">">>
        body == ParseNodes(s, g + 1, c - 1)
    IN  IF g <= e /\ name # <<>> /\ AttrsOK(attrs) /\ HasAt(s, c, close) /\ body.ok
        THEN [ok |-> TRUE, last |-> c + Len(close) - 1,
              node |-> Element(name, attrs # <<>>, SubSeq(attrs, 11, Len(attrs) - 1), body.kids)]
        ELSE [ok |-> FALSE, last |-> e, node |-> NoDom]
  ELSE
    LET last == IndexOf(s, k, "<") - 1
        text == DecodeFrom(SubSeq(s, k, last), 1)
    IN  [ok |-> text.ok, last |-> last, node |-> TextNode(text.data)]

\* The sibling nodes of the content s[i..e]: they follow one another from
\* i to e.
ParseNodes(s, i, e) ==
  LET starts == NodeStarts(s, i, e)
      n == Cardinality(starts)
      start(m) == CHOOSE k \in starts : Cardinality({j \in starts : j < k}) = m - 1
      siblings(nodes) ==
        IF /\ \A m \in 1..n : nodes[m].ok
           /\ i <= e => n > 0 /\ start(1) = i /\ nodes[n].last = e
           /\ \A m \in 1..(n - 1) : nodes[m].last + 1 = start(m + 1)
        THEN [ok |-> TRUE, kids |-> SubSeq([m \in 1..n |-> nodes[m].node], 1, n)]
        ELSE [ok |-> FALSE, kids |-> <<>>]
  IN  siblings(SubSeq([m \in 1..n |-> ParseNode(s, start(m), e)], 1, n))

\* parseString(instr): the document element, or the ExpatError.  Only white
\* space may stand beside the document element.
parseString(s) ==
  LET document(r) ==
        LET elems == {k \in 1..Len(r.kids) : r.kids[k].tag # TextTag}
        IN  IF /\ r.ok
               /\ Cardinality(elems) = 1
               /\ \A k \in 1..Len(r.kids) : k \in elems \/ IsBlank(r.kids[k].data)
            THEN [ok |-> TRUE, documentElement |-> r.kids[CHOOSE k \in elems : TRUE]]
            ELSE [ok |-> FALSE, documentElement |-> NoDom]
  IN  document(ParseNodes(s, 1, Len(s)))

(***************************************************************************)
(* Table2Latex (lines 350-453).                                            *)
(***************************************************************************)
\* colformat: '|c' * self.maxcols + '|'
colformat(mc) == Repeat(<<"|", "c">>, mc) \o <<"|">>

RECURSIVE get_text(_), get_text_children(_, _)
get_text(element) ==
  IF element.tag = TextTag THEN escape_latex_entities(element.data)
  ELSE get_text_children(element.kids, 1)

\* the loop of get_text over childNodes[k-1:]
get_text_children(kids, k) ==
  IF k > Len(kids) THEN <<>>
  ELSE LET kept(text) == IF ~IsBlank(text) THEN text ELSE <<>>
       IN  kept(get_text(kids[k])) \o get_text_children(kids, k + 1)

\* process_cell with line 398 (`self.numcols += colspan`) counting every cell
\* as one column: the variant C2 has to tell from process_cell.
process_cell_one_column(siblings, k, nc) ==
  LET element == siblings[k]
      colspan == IF element.hascolspan THEN StrToInt(element.colspan) ELSE 1
      notLast == /\ k < Len(siblings)
                 /\ siblings[k + 1].tag # TextTag
                 /\ siblings[k + 1].tag \in {<<"t", "d">>, <<"t", "h">>}
      bold(text) == IF element.tag = <<"t", "h">> THEN <<"\\", "t", "e", "x", "t", "b", "f", "{">> \o text \o <<"}">> ELSE text
      buffer(subcontent) ==
        (IF element.hascolspan
         THEN <<" ", "\\", "m", "u", "l", "t", "i", "c", "o", "l", "u", "m", "n", "{">> \o IntToStr(colspan) \o <<"}", "{", "|", "c", "|", "}", "{">> \o subcontent \o <<"}">>
         ELSE <<" ">> \o subcontent)
        \o (IF notLast THEN <<" ", "&">> ELSE <<>>)
  IN  [numcols |-> nc + 1, buffer |-> buffer(bold(get_text(element)))]

\* process_cell(element) for element = siblings[k], with self.numcols = nc:
\* the returned buffer and the new self.numcols.
process_cell(siblings, k, nc) ==
  LET element == siblings[k]
      colspan == IF element.hascolspan THEN StrToInt(element.colspan) ELSE 1
      notLast == /\ k < Len(siblings)
                 /\ siblings[k + 1].tag # TextTag
                 /\ siblings[k + 1].tag \in {<<"t", "d">>, <<"t", "h">>}
      bold(text) == IF element.tag = <<"t", "h">> THEN <<"\\", "t", "e", "x", "t", "b", "f", "{">> \o text \o <<"}">> ELSE text
      buffer(subcontent) ==
        (IF element.hascolspan
         THEN <<" ", "\\", "m", "u", "l", "t", "i", "c", "o", "l", "u", "m", "n", "{">> \o IntToStr(colspan) \o <<"}", "{", "|", "c", "|", "}", "{">> \o subcontent \o <<"}">>
         ELSE <<" ">> \o subcontent)
        \o (IF notLast THEN <<" ", "&">> ELSE <<>>)
  IN  [numcols |-> nc + colspan, buffer |-> buffer(bold(get_text(element)))]

RECURSIVE tolatex(_, _, _, _), tolatex_children(_, _, _, _)
\* tolatex(element) for element = siblings[k], with self.numcols = nc and
\* self.maxcols = mc: the returned buffer and the new values of the fields.
tolatex(siblings, k, nc, mc) ==
  LET element == siblings[k]
      sub == tolatex_children(element.kids, 1, nc, mc)
      subcontent == Strip(sub.buffer)
      td(cell) == [numcols |-> cell.numcols, maxcols |-> sub.maxcols, buffer |-> cell.buffer]
  IN  CASE element.tag = TextTag -> [numcols |-> nc, maxcols |-> mc, buffer |-> <<>>]
        [] element.tag = <<"t", "h", "e", "a", "d">> ->
             [numcols |-> sub.numcols, maxcols |-> sub.maxcols, buffer |-> subcontent \o <<"\n">>]
        [] element.tag = <<"t", "r">> ->
             [numcols |-> 0, maxcols |-> Max(sub.numcols, sub.maxcols),
              buffer |-> <<"\n", "\\", "h", "l", "i", "n", "e", "\n">> \o subcontent \o <<" ", "\\", "\\">>]
        [] element.tag \in {<<"t", "d">>, <<"t", "h">>} ->
             td(process_cell(siblings, k, sub.numcols))
        [] OTHER -> [numcols |-> sub.numcols, maxcols |-> sub.maxcols, buffer |-> subcontent]

\* the loop of tolatex over childNodes[k-1:]: `subcontent` before the strip
tolatex_children(kids, k, nc, mc) ==
  IF k > Len(kids) THEN [numcols |-> nc, maxcols |-> mc, buffer |-> <<>>]
  ELSE LET ret == tolatex(kids, k, nc, mc)
       IN  IF IsBlank(ret.buffer)
           THEN tolatex_children(kids, k + 1, ret.numcols, ret.maxcols)
           ELSE [tolatex_children(kids, k + 1, ret.numcols, ret.maxcols)
                   EXCEPT !.buffer = ret.buffer \o @]

RECURSIVE Descendants(_), DescendantsOf(_, _)
\* The elements below `element`, in document order.
Descendants(element) == DescendantsOf(element.kids, 1)

DescendantsOf(kids, k) ==
  IF k > Len(kids) THEN <<>>
  ELSE (IF kids[k].tag = TextTag THEN <<>> ELSE <<kids[k]>> \o Descendants(kids[k]))
       \o DescendantsOf(kids, k + 1)

\* getElementsByTagName(name)
getElementsByTagName(element, name) == SelectSeq(Descendants(element), LAMBDA n : n.tag = name)

\* The template of convert (lines 442-452).
table_latex(colformatting, core, caption) ==
  <<"\n", "\\", "b", "e", "g", "i", "n", "{", "t", "a", "b", "l", "e", "}", "\n", "\\", "b", "e", "g", "i", "n", "{", "t", "a", "b", "u", "l", "a", "r", "}", "{">> \o colformatting \o <<"}", "\n">> \o core
  \o <<"\n", "\\", "h", "l", "i", "n", "e", "\n", "\\", "e", "n", "d", "{", "t", "a", "b", "u", "l", "a", "r", "}", "\n", "\\", "\\", "[", "5", "p", "t", "]", "\n", "\\", "c", "a", "p", "t", "i", "o", "n", "{">> \o caption \o <<"}", "\n", "\\", "e", "n", "d", "{", "t", "a", "b", "l", "e", "}", "\n">>

\* Lines 434-453 of convert, on the parsed document and the fields as the
\* first lines of convert left them.
convert_dom(documentElement, nc, mc) ==
  LET captionElements == getElementsByTagName(documentElement, <<"c", "a", "p", "t", "i", "o", "n">>)
      caption == IF captionElements # <<>> THEN get_text(captionElements[1]) ELSE <<>>
      table(core) ==
        [numcols |-> core.numcols, maxcols |-> core.maxcols,
         out |-> table_latex(colformat(core.maxcols), core.buffer, caption)]
  IN  table(tolatex(<<documentElement>>, 1, nc, mc))

(***************************************************************************)
(* The pattern and the list operations of TableTextPostProcessor.run.      *)
(***************************************************************************)
\* The last index at which p occurs in s at or after i, or 0.
LastIndexOf(s, i, p) ==
  LET at == {j \in i..Len(s) : HasAt(s, j, p)}
  IN  IF at = {} THEN 0 ELSE CHOOSE j \in at : \A k \in at : k <= j

\* tablematch = <table.*</table>  (DOTALL): .* is greedy, so the match runs
\* to the last '</table>' of the text.
TableMatchEnd(s, i) ==
  IF HasAt(s, i, <<"<", "t", "a", "b", "l", "e">>) /\ LastIndexOf(s, i + 6, <<"<", "/", "t", "a", "b", "l", "e", ">">>) > 0
  THEN LastIndexOf(s, i + 6, <<"<", "/", "t", "a", "b", "l", "e", ">">>) + 7
  ELSE 0

RECURSIVE FindAllFrom(_, _)
FindAllFrom(s, i) ==
  LET j == FirstWhere(i, Len(s), {x \in i..Len(s) : TableMatchEnd(s, x) >= x})
  IN  IF j > Len(s) THEN <<>>
      ELSE <<SubSeq(s, j, TableMatchEnd(s, j))>> \o FindAllFrom(s, TableMatchEnd(s, j) + 1)

\* tablematch.findall(instr)
findall(s) == FindAllFrom(s, 1)

RECURSIVE SplitFrom(_, _)
\* the pieces of s[i-1:] between the matches
SplitFrom(s, i) ==
  LET j == FirstWhere(i, Len(s), {x \in i..Len(s) : TableMatchEnd(s, x) >= x})
  IN  IF j > Len(s) THEN <<SubSeq(s, i, Len(s))>>
      ELSE <<SubSeq(s, i, j - 1)>> \o SplitFrom(s, TableMatchEnd(s, j) + 1)

\* tablematch.split(instr)
split(s) == SplitFrom(s, 1)

RECURSIVE Reverse(_)
Reverse(ss) == IF ss = <<>> THEN <<>> ELSE Reverse(Tail(ss)) \o <<Head(ss)>>

\* list.pop(): the list without its last item
Popped(ss) == SubSeq(ss, 1, Len(ss) - 1)

(***************************************************************************)
(* The elements of the walker's tree and the rewrite of one element        *)
(* (LaTeXTreeProcessor.tolatex, lines 249-272).  An element is a record of *)
(* its tag, its text (None, or a string) and its children.                 *)
(***************************************************************************)
None == [none |-> TRUE, s |-> <<>>]
Text(s) == [none |-> FALSE, s |-> s]
Elem(tag, text, kids) == [tag |-> tag, text |-> text, kids |-> kids]

\* '%s' % elem.text
Format(text) == IF text.none THEN <<"N", "o", "n", "e">> ELSE text.s

\* the block appended to the title (lines 256-260)
maketitle ==
  <<"\n", "%", " ", "-", "-", "-", "-", "-", "-", "-", "-", "-", "-", "-", "-", "-", "-", "-", "-", "-", "-", "-", "-", "-", "-", "-", "-", "-", "-", "-", "-", "-", "-", "-", "-", "-", "-", "-", "-", "-", "-", "-", "-", "-", "-", "-", "-", "-", "-", "-", "-", "-", "-", "-", "-", "-", "-", "-", "-", "-", "-", "-", "-", "-", "-", "-", "-", "\n", "\\", "m", "a", "k", "e", "t", "i", "t", "l", "e", "\n", "%", " ", "-", "-", "-", "-", "-", "-", "-", "-", "-", "-", "-", "-", "-", "-", "-", "-", "-", "-", "-", "-", "-", "-", "-", "-", "-", "-", "-", "-", "-", "-", "-", "-", "-", "-", "-", "-", "-", "-", "-", "-", "-", "-", "-", "-", "-", "-", "-", "-", "-", "-", "-", "-", "-", "-", "-", "-", "-", "-", "-", "-", "-", "-", "-", "-", "\n">>

\* The tag tests of the loop body (lines 254-272) on one element, `tags`
\* being the tags of its children.
rewrite(elem, tags) ==
  LET t == Format(elem.text)
      has(tag) == \E k \in 1..Len(tags) : tags[k] = tag
  IN  IF elem.tag = <<"h", "1">> THEN Text(<<"\n", "\\", "t", "i", "t", "l", "e", "{">> \o t \o <<"}", "\n">> \o maketitle)
      ELSE IF elem.tag = <<"h", "2">> THEN Text(<<"\n", "\\", "s", "e", "c", "t", "i", "o", "n", "{">> \o t \o <<"}", "\n">>)
      ELSE IF elem.tag = <<"h", "3">> THEN Text(<<"\n", "\\", "s", "u", "b", "s", "e", "c", "t", "i", "o", "n", "{">> \o t \o <<"}", "\n">>)
      ELSE IF elem.tag = <<"h", "4">> THEN Text(<<"\n", "\\", "s", "u", "b", "s", "u", "b", "s", "e", "c", "t", "i", "o", "n", "{">> \o t \o <<"}", "\n">>)
      ELSE IF elem.tag = <<"l", "i">> THEN Text(<<" ", " ", "\\", "i", "t", "e", "m", " ">> \o t)
      ELSE IF elem.tag = <<"p">> /\ ~has(<<"s", "u", "p">>) /\ ~has(<<"e", "m">>) THEN Text(t \o <<"\n">>)
      ELSE IF elem.tag = <<"e", "m">> THEN Text(<<"\\", "e", "m", "p", "h", "{">> \o t \o <<"}">>)
      ELSE elem.text

RECURSIVE walk(_)
\* tolatex(ournode): ournode after the loop over its children
walk(ournode) ==
  [ournode EXCEPT !.kids =
     [k \in 1..Len(ournode.kids) |->
        LET elem == walk(ournode.kids[k])
            tags == [i \in 1..Len(elem.kids) |-> elem.kids[i].tag]
        IN  [elem EXCEPT !.text = rewrite(elem, tags)]]]

(***************************************************************************)
(* The arguments the calls are made with.                                  *)
(***************************************************************************)
\* The sequences of at most n members of S.
SeqsUpTo(S, n) == UNION {[1..k -> S] : k \in 0..n}

EscPieces ==
  {<<"&", "a", "m", "p", ";">>, <<"&", "l", "t", ";">>, <<"&">>, <<"%">>, <<"#">>, <<"a">>, <<" ">>, <<"\"">>, <<"'">>, <<"<", "p", ">">>}

EscInputs == PieceStrings(EscPieces, MaxEscPieces)

MathPieces ==
  {<<"$">>, <<"$", "$">>, <<"a">>, <<" ">>, <<"\n">>, <<"<", "p", ">">>, <<"%">>, <<"\\", "&">>, <<"\\", "[">>}

\* The examples of the specification, and texts with what the pieces lack.
MathExample1 == <<"$", "$", " ", "x", "^", "2", " ", "$", "$">>
MathExample2 == <<"P", "r", "i", "c", "e", " ", "i", "s", " ", "$", "5", " ", "a", "n", "d", " ", "$", "$", "E", "=", "m", "c", "^", "2", "$", "$", " ", "t", "o", "d", "a", "y">>
MathExample3 == <<"$", "$", " ", "x", "^", "2", " ", "$", "$", "\n", "P", "r", "i", "c", "e", " ", "i", "s", " ", "$", "5", " ", "a", "n", "d", " ", "$", "$", "E", "=", "m", "c", "^", "2", "$", "$", " ", "t", "o", "d", "a", "y">>
MathExample4 == <<"<", "p", ">", "$", "$", "\\", "b", "e", "g", "i", "n", "{", "a", "r", "r", "a", "y", "}", "a", " ", "\\", "&", " ", "b", "\\", "e", "n", "d", "{", "a", "r", "r", "a", "y", "}", "$", "$", "\n", "5", "0", "%", " ", "-", " ", "5", "%", " ", "o", "f", " ", "a", " ", "*", " ", "b", " ", "\\", "l", "t", " ", "\\", "d", "e", "l">>

MathExample5 == <<"a", "$", "b", "$", "c">>
MathExample6 == <<"c", "o", "s", "t", " ", "$", "5", " ", "x", "\n", "<", "p", ">", "$", "$", "a", " ", "\\", "&", " ", "b", "$", "$", " ", "\n", "\n", "a", "n", "d", " ", "$", "6", " ", "y">>
MathExample7 == <<"u", "p", " ", "5", "\\", "%", ",", " ", "d", "o", "w", "n", " ", "6", "%", ".">>

MathInputs ==
  PieceStrings(MathPieces, MaxMathPieces)
    \cup {MathExample1, MathExample2, MathExample3, MathExample4,
          MathExample5, MathExample6, MathExample7}

\* A table's markup.  `sep` stands between the tags: nothing, or the newline
\* that python-markdown's serializer writes after each of them.
Cells == {<<"<", "t", "d", ">", "a", "<", "/", "t", "d", ">">>, <<"<", "t", "d", " ", "c", "o", "l", "s", "p", "a", "n", "=", "\"", "2", "\"", ">", "b", "<", "/", "t", "d", ">">>}
Seps == {<<>>, <<"\n">>}

RECURSIVE Sandwich(_, _)
\* sep before each item
Sandwich(items, sep) ==
  IF items = <<>> THEN <<>> ELSE sep \o Head(items) \o Sandwich(Tail(items), sep)

RowMarkup(cells, sep) == <<"<", "t", "r", ">">> \o Sandwich(cells, sep) \o sep \o <<"<", "/", "t", "r", ">">>

TableMarkup(rows, sep) ==
  <<"<", "t", "a", "b", "l", "e", ">">>
    \o Sandwich([k \in 1..Len(rows) |-> RowMarkup(rows[k], sep)], sep)
    \o sep \o <<"<", "/", "t", "a", "b", "l", "e", ">">>

\* The example of the specification: 3 plain cells, then colspan=2 and a plain cell.
TableExample1 ==
  <<"<", "t", "a", "b", "l", "e", ">", "<", "t", "r", ">", "<", "t", "d", ">", "a", "<", "/", "t", "d", ">", "<", "t", "d", ">", "b", "<", "/", "t", "d", ">", "<", "t", "d", ">", "c", "<", "/", "t", "d", ">", "<", "/", "t", "r", ">", "<", "t", "r", ">", "<", "t", "d", " ", "c", "o", "l", "s", "p", "a", "n", "=", "\"", "2", "\"", ">", "d", "<", "/", "t", "d", ">", "<", "t", "d", ">", "e", "<", "/", "t", "d", ">", "<", "/", "t", "r", ">", "<", "/", "t", "a", "b", "l", "e", ">">>
\* A caption, a header row, a body, a percent sign and an entity.
TableExample2 ==
  <<"<", "t", "a", "b", "l", "e", ">", "\n", "<", "c", "a", "p", "t", "i", "o", "n", ">", "t", " ", "&", "a", "m", "p", ";", " ", "u", "<", "/", "c", "a", "p", "t", "i", "o", "n", ">", "\n", "<", "t", "h", "e", "a", "d", ">", "\n", "<", "t", "r", ">", "\n", "<", "t", "h", ">", "h", "<", "/", "t", "h", ">", "\n", "<", "t", "h", ">", "k", "<", "/", "t", "h", ">", "\n", "<", "/", "t", "r", ">", "\n", "<", "/", "t", "h", "e", "a", "d", ">", "\n", "<", "t", "b", "o", "d", "y", ">", "\n", "<", "t", "r", ">", "\n", "<", "t", "d", ">", "5", "%", "<", "/", "t", "d", ">", "\n", "<", "t", "d", ">", "<", "/", "t", "d", ">", "\n", "<", "/", "t", "r", ">", "\n", "<", "/", "t", "b", "o", "d", "y", ">", "\n", "<", "/", "t", "a", "b", "l", "e", ">">>
\* Cells outside any row: numcols is not reset after them.
TableExample3 == <<"<", "t", "a", "b", "l", "e", ">", "<", "t", "d", ">", "a", "<", "/", "t", "d", ">", "<", "t", "d", " ", "c", "o", "l", "s", "p", "a", "n", "=", "\"", "2", "\"", ">", "b", "<", "/", "t", "d", ">", "<", "/", "t", "a", "b", "l", "e", ">">>
TableExample4 == <<"<", "t", "a", "b", "l", "e", ">", "<", "t", "r", ">", "<", "t", "d", ">", "a", "<", "/", "t", "d", ">", "<", "t", "d", ">", "b", "<", "/", "t", "d", ">", "<", "t", "d", ">", "c", "<", "/", "t", "d", ">", "<", "/", "t", "r", ">", "<", "t", "d", ">", "d", "<", "/", "t", "d", ">", "<", "/", "t", "a", "b", "l", "e", ">">>
\* Markup that does not parse.
TableExample5 == <<"<", "t", "a", "b", "l", "e", ">", "<", "t", "r", ">", "<", "t", "d", ">", "a", "<", "/", "t", "d", ">", "<", "/", "t", "a", "b", "l", "e", ">">>
TableExample6 == <<"<", "t", "a", "b", "l", "e", ">", "<", "t", "r", ">", "<", "t", "d", ">", "a", " ", "&", " ", "b", "<", "/", "t", "d", ">", "<", "/", "t", "r", ">", "<", "/", "t", "a", "b", "l", "e", ">">>

TableInputs ==
  {TableMarkup(rows, sep) : rows \in SeqsUpTo(SeqsUpTo(Cells, MaxCells), MaxRows), sep \in Seps}
    \cup {TableExample1, TableExample2, TableExample3, TableExample4,
          TableExample5, TableExample6}

\* A document: text and tables.
Segments ==
  {<<"x">>, <<"\n", "\n">>,
   <<"<", "t", "a", "b", "l", "e", ">", "<", "t", "r", ">", "<", "t", "d", ">", "a", "<", "/", "t", "d", ">", "<", "t", "d", ">", "b", "<", "/", "t", "d", ">", "<", "/", "t", "r", ">", "<", "/", "t", "a", "b", "l", "e", ">">>,
   <<"<", "t", "a", "b", "l", "e", ">", "\n", "<", "t", "r", ">", "\n", "<", "t", "d", ">", "a", "<", "/", "t", "d", ">", "\n", "<", "/", "t", "r", ">", "\n", "<", "/", "t", "a", "b", "l", "e", ">">>}

DocInputs == PieceStrings(Segments, MaxSegments)

\* The walker's trees: a root with at most MaxKids children, which are
\* leaves or elements with one inline child.
LeafTags == {<<"h", "1">>, <<"h", "2">>, <<"h", "3">>, <<"h", "4">>, <<"l", "i">>, <<"p">>, <<"e", "m">>, <<"s", "t", "r", "o", "n", "g">>, <<"s", "u", "p">>}
Texts == {None, Text(<<"a">>)}
Inlines == {Elem(tag, Text(<<"b">>), <<>>) : tag \in {<<"e", "m">>, <<"s", "t", "r", "o", "n", "g">>, <<"s", "u", "p">>}}
Leaves == {Elem(tag, text, <<>>) : tag \in LeafTags, text \in Texts}
Blocks == {Elem(tag, text, <<kid>>) : tag \in {<<"p">>, <<"l", "i">>}, text \in Texts, kid \in Inlines}

TreeInputs == {Elem(<<"d", "i", "v">>, None, kids) : kids \in SeqsUpTo(Leaves \cup Blocks, MaxKids)}

(***************************************************************************)
(* escape_latex_entities (lines 93-108), one action per statement.         *)
(***************************************************************************)
\* The program is single-threaded: a call starts when no other is under way.
AllIdle == epc = "idle" /\ mpc = "idle" /\ tpc = "idle" /\ ppc = "idle" /\ wpc = "idle"

EscapeCall ==
  /\ AllIdle
  /\ \E text \in EscInputs :
       /\ etext' = text
       /\ eout' = text                                      \* out = text
  /\ epc' = "called"
  /\ UNCHANGED <<mvars, tvars, pvars, wvars>>

EscapeEntities ==
  /\ epc = "called"
  /\ eout' = remove_html_entities(eout)
  /\ epc' = "entities"
  /\ UNCHANGED <<etext, mvars, tvars, pvars, wvars>>

EscapePercent ==
  /\ epc = "entities"
  /\ eout' = Replace(eout, <<"%">>, <<"\\", "%">>)
  /\ epc' = "percent"
  /\ UNCHANGED <<etext, mvars, tvars, pvars, wvars>>

EscapeAmp ==
  /\ epc = "percent"
  /\ eout' = Replace(eout, <<"&">>, <<"\\", "&">>)
  /\ epc' = "amp"
  /\ UNCHANGED <<etext, mvars, tvars, pvars, wvars>>

EscapeHash ==
  /\ epc = "amp"
  /\ eout' = Replace(eout, <<"#">>, <<"\\", "#">>)
  /\ epc' = "hash"
  /\ UNCHANGED <<etext, mvars, tvars, pvars, wvars>>

EscapeStartSingle ==
  /\ epc = "hash"
  /\ eout' = re_sub("start_single_quote_re", eout)
  /\ epc' = "start_single"
  /\ UNCHANGED <<etext, mvars, tvars, pvars, wvars>>

EscapeStartDouble ==
  /\ epc = "start_single"
  /\ eout' = re_sub("start_double_quote_re", eout)
  /\ epc' = "start_double"
  /\ UNCHANGED <<etext, mvars, tvars, pvars, wvars>>

EscapeEndDouble ==
  /\ epc = "start_double"
  /\ eout' = re_sub("end_double_quote_re", eout)
  /\ epc' = "returned"
  /\ UNCHANGED <<etext, mvars, tvars, pvars, wvars>>

EscapeDone ==
  /\ epc = "returned"
  /\ epc' = "idle"
  /\ etext' = <<>>
  /\ eout' = <<>>
  /\ UNCHANGED <<mvars, tvars, pvars, wvars>>

(***************************************************************************)
(* MathTextPostProcessor.run (lines 286-322), one action per substitution. *)
(***************************************************************************)
MathCall ==
  /\ AllIdle
  /\ \E text \in MathInputs :
       /\ instr' = text
       /\ out' = text
  /\ mpc' = "called"
  /\ UNCHANGED <<evars, tvars, pvars, wvars>>

MathPat ==
  /\ mpc = "called"
  /\ out' = re_sub("pat", instr)                            \* out = pat.sub(repl_1, instr)
  /\ mpc' = "pat"
  /\ UNCHANGED <<instr, evars, tvars, pvars, wvars>>

MathPat1 ==
  /\ mpc = "pat"
  /\ out' = re_sub("pat1", out)
  /\ mpc' = "pat1"
  /\ UNCHANGED <<instr, evars, tvars, pvars, wvars>>

MathPat2 ==
  /\ mpc = "pat1"
  /\ out' = re_sub("pat2", out)
  /\ mpc' = "pat2"
  /\ UNCHANGED <<instr, evars, tvars, pvars, wvars>>

MathPat3 ==
  /\ mpc = "pat2"
  /\ out' = re_sub("pat3", out)
  /\ mpc' = "pat3"
  /\ UNCHANGED <<instr, evars, tvars, pvars, wvars>>

MathPercent ==
  /\ mpc = "pat3"
  /\ out' = re_sub("percent", out)
  /\ mpc' = "percent"
  /\ UNCHANGED <<instr, evars, tvars, pvars, wvars>>

\* "some extras due to asciimathml" (lines 319-321)
MathExtras ==
  /\ mpc = "percent"
  /\ out' = Replace(Replace(Replace(out, <<"\\", "l", "t">>, <<"<">>), <<" ", "*", " ">>, <<" ", "\\", "c", "d", "o", "t", " ">>),
                    <<"\\", "d", "e", "l">>, <<"\\", "p", "a", "r", "t", "i", "a", "l">>)
  /\ mpc' = "returned"
  /\ UNCHANGED <<instr, evars, tvars, pvars, wvars>>

MathDone ==
  /\ mpc = "returned"
  /\ mpc' = "idle"
  /\ instr' = <<>>
  /\ out' = <<>>
  /\ UNCHANGED <<evars, tvars, pvars, wvars>>

(***************************************************************************)
(* Table2Latex.convert (lines 430-453) on one converter instance.  The     *)
(* first three lines (the reset and the parse) are one action, the rest of *)
(* the body another; ConvertDone is the return to the caller, which ends   *)
(* the call's locals and leaves the instance's fields as they are.         *)
(* `tentry` records the fields and the position as the call found them.    *)
(***************************************************************************)
\* ConvertReset without lines 431-432 (`self.numcols = 0`, `self.maxcols = 0`):
\* the variant C8 has to tell from ConvertReset.
ConvertReset_counts_kept ==
  /\ AllIdle
  /\ \E text \in TableInputs :
       \E parsed \in {parseString(text)} :
         /\ dom' = parsed.documentElement
         /\ tpc' = IF parsed.ok THEN "parsed" ELSE "ExpatError"
         /\ tinstr' = text
  /\ tout' = <<>>
  /\ UNCHANGED <<numcols, maxcols, tentry, evars, mvars, pvars, wvars>>

ConvertReset ==
  /\ AllIdle
  /\ \E text \in TableInputs :
       \E parsed \in {parseString(text)} :
         /\ dom' = parsed.documentElement
         /\ tpc' = IF parsed.ok THEN "parsed" ELSE "ExpatError"
         /\ tinstr' = text
  /\ numcols' = 0
  /\ maxcols' = 0
  /\ tout' = <<>>
  /\ UNCHANGED <<tentry, evars, mvars, pvars, wvars>>

ConvertBuild ==
  /\ tpc = "parsed"
  /\ \E built \in {convert_dom(dom, numcols, maxcols)} :
       /\ numcols' = built.numcols
       /\ maxcols' = built.maxcols
       /\ tout' = built.out
  /\ tpc' = "returned"
  /\ UNCHANGED <<tinstr, dom, tentry, evars, mvars, pvars, wvars>>

ConvertDone ==
  /\ tpc \in {"returned", "ExpatError"}
  /\ tentry' = [numcols |-> numcols, maxcols |-> maxcols, after |-> tpc]
  /\ tinstr' = <<>>
  /\ dom' = NoDom
  /\ tout' = <<>>
  /\ tpc' = "idle"
  /\ UNCHANGED <<numcols, maxcols, evars, mvars, pvars, wvars>>

(***************************************************************************)
(* TableTextPostProcessor.run (lines 330-347).                             *)
(***************************************************************************)
RunCall ==
  /\ AllIdle
  /\ \E text \in DocInputs : doc' = text
  /\ ppc' = "called"
  /\ UNCHANGED <<nontables, tables, new_blocks, ppout, evars, mvars, tvars, wvars>>

\* lines 337-341
RunSplit ==
  /\ ppc = "called"
  /\ tables' = findall(doc)
  /\ nontables' = split(doc)
  /\ new_blocks' = <<>>
  /\ ppc' = "loop"
  /\ UNCHANGED <<doc, ppout, evars, mvars, tvars, wvars>>

\* One turn of the while loop (lines 342-345).  A pop from an empty list
\* raises IndexError and a fragment that does not parse raises ExpatError;
\* either ends run, with what the turn had done before it.
RunLoop ==
  /\ ppc = "loop"
  /\ Len(nontables) > 0
  /\ LET block1 == nontables[Len(nontables)]
         rest1 == Popped(nontables)
         table == tables[Len(tables)]
     IN  IF tables = <<>>
         THEN /\ ppc' = "IndexError"
              /\ nontables' = rest1
              /\ new_blocks' = new_blocks \o <<block1>>
              /\ UNCHANGED <<tables, tvars>>
         ELSE \E parsed \in {parseString(table)} :
              \E conv \in {IF parsed.ok THEN convert_dom(parsed.documentElement, 0, 0)
                           ELSE [numcols |-> 0, maxcols |-> 0, out |-> <<>>]} :
                /\ tables' = Popped(tables)
                /\ tinstr' = table
                /\ dom' = parsed.documentElement
                /\ numcols' = conv.numcols
                /\ maxcols' = conv.maxcols
                /\ tout' = conv.out
                /\ UNCHANGED <<tpc, tentry>>
                /\ IF ~parsed.ok
                   THEN /\ ppc' = "ExpatError"
                        /\ nontables' = rest1
                        /\ new_blocks' = new_blocks \o <<block1>>
                   ELSE IF rest1 = <<>>
                   THEN /\ ppc' = "IndexError"
                        /\ nontables' = rest1
                        /\ new_blocks' = new_blocks \o <<block1, Strip(conv.out)>>
                   ELSE /\ ppc' = "loop"
                        /\ nontables' = Popped(rest1)
                        /\ new_blocks' =
                             new_blocks \o <<block1, Strip(conv.out), rest1[Len(rest1)]>>
  /\ UNCHANGED <<doc, ppout, evars, mvars, wvars>>

\* lines 346-347
RunReturn ==
  /\ ppc = "loop"
  /\ Len(nontables) = 0
  /\ ppout' = Join(<<"\n">>, Reverse(new_blocks))
  /\ ppc' = "returned"
  /\ UNCHANGED <<doc, nontables, tables, new_blocks, evars, mvars, tvars, wvars>>

\* The caller takes the result or the exception; the locals end with the call.
RunDone ==
  /\ ppc \in {"returned", "IndexError", "ExpatError"}
  /\ ppc' = "idle"
  /\ doc' = <<>>
  /\ nontables' = <<>>
  /\ tables' = <<>>
  /\ new_blocks' = <<>>
  /\ ppout' = <<>>
  /\ tinstr' = <<>>
  /\ dom' = NoDom
  /\ tout' = <<>>
  /\ numcols' = 0
  /\ maxcols' = 0
  /\ UNCHANGED <<tpc, tentry, evars, mvars, wvars>>

(***************************************************************************)
(* LaTeXTreeProcessor.run (lines 244-247).                                 *)
(***************************************************************************)
WalkCall ==
  /\ AllIdle
  /\ \E root \in TreeInputs :
       /\ wbefore' = root
       /\ wroot' = root
  /\ wpc' = "called"
  /\ UNCHANGED <<evars, mvars, tvars, pvars>>

\* run(root): self.tolatex(root)
WalkRun ==
  /\ wpc = "called"
  /\ wroot' = walk(wroot)
  /\ wpc' = "returned"
  /\ UNCHANGED <<wbefore, evars, mvars, tvars, pvars>>

WalkDone ==
  /\ wpc = "returned"
  /\ wpc' = "idle"
  /\ wbefore' = Elem(<<"d", "i", "v">>, None, <<>>)
  /\ wroot' = Elem(<<"d", "i", "v">>, None, <<>>)
  /\ UNCHANGED <<evars, mvars, tvars, pvars>>

(***************************************************************************)
(* The specifications: one per component, and the program as a whole.      *)
(***************************************************************************)
Init ==
  /\ etext = <<>> /\ eout = <<>> /\ epc = "idle"
  /\ instr = <<>> /\ out = <<>> /\ mpc = "idle"
  /\ tinstr = <<>> /\ dom = NoDom /\ numcols = 0 /\ maxcols = 0 /\ tout = <<>>
  /\ tpc = "idle"
  /\ tentry = [numcols |-> 0, maxcols |-> 0, after |-> "idle"]
  /\ doc = <<>> /\ nontables = <<>> /\ tables = <<>> /\ new_blocks = <<>>
  /\ ppout = <<>> /\ ppc = "idle"
  /\ wbefore = Elem(<<"d", "i", "v">>, None, <<>>) /\ wroot = Elem(<<"d", "i", "v">>, None, <<>>) /\ wpc = "idle"

NextEscape ==
  \/ EscapeCall
  \/ EscapeEntities
  \/ EscapePercent
  \/ EscapeAmp
  \/ EscapeHash
  \/ EscapeStartSingle
  \/ EscapeStartDouble
  \/ EscapeEndDouble
  \/ EscapeDone

NextMath ==
  \/ MathCall
  \/ MathPat
  \/ MathPat1
  \/ MathPat2
  \/ MathPat3
  \/ MathPercent
  \/ MathExtras
  \/ MathDone

NextTable ==
  \/ ConvertReset
  \/ ConvertBuild
  \/ ConvertDone

NextRun ==
  \/ RunCall
  \/ RunSplit
  \/ RunLoop
  \/ RunReturn
  \/ RunDone

NextWalk ==
  \/ WalkCall
  \/ WalkRun
  \/ WalkDone

Next == NextEscape \/ NextMath \/ NextTable \/ NextRun \/ NextWalk

SpecEscape == Init /\ [][NextEscape]_vars
SpecMath == Init /\ [][NextMath]_vars
SpecTable == Init /\ [][NextTable]_vars
SpecRun == Init /\ [][NextRun]_vars
SpecWalk == Init /\ [][NextWalk]_vars
Spec == Init /\ [][Next]_vars

(***************************************************************************)
(* The claims about the table converter (checked under SpecTable).         *)
(***************************************************************************)
CellTags == {<<"t", "d">>, <<"t", "h">>}

\* The elements of the parsed fragment, the document element first.
Elements(documentElement) == <<documentElement>> \o Descendants(documentElement)

\* The rows of a fragment: its tr elements.
Rows(documentElement) == SelectSeq(Elements(documentElement), LAMBDA n : n.tag = <<"t", "r">>)

\* The positions of a row's cells among its children.
CellsOf(row) == {k \in 1..Len(row.kids) : row.kids[k].tag \in CellTags}

\* The emitted cell: what tolatex returns for the k-th child of the row.
EmittedCell(row, k) == tolatex(row.kids, k, 0, 0).buffer

\* C1: once convert has returned, in every row with N >= 1 cells exactly N - 1
\* of the emitted cells end with ' &' and the last cell does not, whether or
\* not white space separates the cells in the fragment.
C1_LastCellRule ==
  tpc = "returned" =>
    \A r \in 1..Len(Rows(dom)) :
      LET row == Rows(dom)[r]
          cells == CellsOf(row)
          last == CHOOSE k \in cells : \A j \in cells : j <= k
      IN  cells # {} =>
            /\ Cardinality({k \in cells : EndsWith(EmittedCell(row, k), <<" ", "&">>)})
                 = Cardinality(cells) - 1
            /\ ~EndsWith(EmittedCell(row, last), <<" ", "&">>)

RECURSIVE CellsInRows(_)
\* Every cell is the child of a row, and a row holds cells and text only.
CellsInRows(n) ==
  \A k \in 1..Len(n.kids) :
    /\ n.kids[k].tag \in CellTags => n.tag = <<"t", "r">>
    /\ n.tag = <<"t", "r">> => n.kids[k].tag \in CellTags \cup {TextTag}
    /\ n.tag \in CellTags => n.kids[k].tag = TextTag
    /\ CellsInRows(n.kids[k])

\* A cell's span: its colspan attribute if declared, else 1.
Span(cell) == IF cell.hascolspan THEN StrToInt(cell.colspan) ELSE 1

RECURSIVE SumSpans(_, _)
SumSpans(kids, k) ==
  IF k > Len(kids) THEN 0
  ELSE (IF kids[k].tag \in CellTags THEN Span(kids[k]) ELSE 0) + SumSpans(kids, k + 1)

\* The widest row: the maximum over the rows of the sum of the cells' spans.
WidestRow(documentElement) ==
  LET sums == {SumSpans(Rows(documentElement)[r].kids, 1) : r \in 1..Len(Rows(documentElement))}
  IN  IF sums = {} THEN 0 ELSE CHOOSE m \in sums : \A x \in sums : x <= m

\* C2: after convert on a fragment whose cells all lie inside rows, maxcols is
\* the maximum over the rows of the sum of the row's cell spans, numcols is
\* back at 0, and the column spec of the result is '|c' * maxcols + '|'; the
\* example of 3 plain cells and a colspan=2 cell with a plain cell gives 3.
C2_ColumnInference ==
  /\ (tpc = "returned" /\ CellsInRows(dom)) =>
       /\ maxcols = WidestRow(dom)
       /\ numcols = 0
       /\ StartsWith(tout, <<"\n", "\\", "b", "e", "g", "i", "n", "{", "t", "a", "b", "l", "e", "}", "\n", "\\", "b", "e", "g", "i", "n", "{", "t", "a", "b", "u", "l", "a", "r", "}", "{">>
                             \o Repeat(<<"|", "c">>, WidestRow(dom)) \o <<"|", "}", "\n">>)
  /\ (tpc = "returned" /\ tinstr = TableExample1) =>
       /\ maxcols = 3
       /\ StartsWith(tout, <<"\n", "\\", "b", "e", "g", "i", "n", "{", "t", "a", "b", "l", "e", "}", "\n", "\\", "b", "e", "g", "i", "n", "{", "t", "a", "b", "u", "l", "a", "r", "}", "{", "|", "c", "|", "c", "|", "c", "|", "}", "\n">>)

\* C2 witness: convert has returned from a fragment with two rows of different
\* widths, one of them with a colspan cell.
C2_Witness ==
  /\ tpc = "returned"
  /\ CellsInRows(dom)
  /\ Len(Rows(dom)) = 2
  /\ SumSpans(Rows(dom)[1].kids, 1) = 1
  /\ SumSpans(Rows(dom)[2].kids, 1) = 4
  /\ maxcols = 4

\* C8: numcols and maxcols are both 0 when a call's traversal starts, whatever
\* the earlier calls on the instance left, and what a call returns and leaves
\* in maxcols is what a fresh converter makes of the call's fragment alone.
C8_AccumulatorReset ==
  /\ tpc = "parsed" => numcols = 0 /\ maxcols = 0
  /\ tpc = "returned" =>
       /\ tout = convert_dom(dom, 0, 0).out
       /\ maxcols = convert_dom(dom, 0, 0).maxcols

\* C8 witness: a call returns a one-column table on an instance whose earlier
\* call left numcols non-zero (cells outside any row) and maxcols wider.
C8_Witness ==
  /\ tpc = "returned"
  /\ tentry.after = "returned"
  /\ tentry.numcols > 0
  /\ tentry.maxcols > 1
  /\ Len(Rows(dom)) = 1
  /\ maxcols = 1

(***************************************************************************)
(* The claims about the table post-processor (checked under SpecRun).      *)
(***************************************************************************)
Opens(s) == {i \in 1..Len(s) : HasAt(s, i, <<"<", "t", "a", "b", "l", "e">>)}
Closes(s) == {i \in 1..Len(s) : HasAt(s, i, <<"<", "/", "t", "a", "b", "l", "e", ">">>)}

\* The tables of s do not nest and text separates them: each '<table' is
\* closed before the next one opens, and none opens right after a '</table>'.
SeparateTables(s) ==
  /\ Opens(s) # {}
  /\ Cardinality(Opens(s)) = Cardinality(Closes(s))
  /\ \A o \in Opens(s) :
       \E c \in Closes(s) :
         /\ o < c
         /\ \A x \in Opens(s) \cup Closes(s) : ~(o < x /\ x < c)
  /\ \A c \in Closes(s) : (c + 8) \notin Opens(s)

\* C7: for a document of k >= 1 non-nested tables separated by text, every
\* string handed to convert holds exactly one table, and convert has been
\* called once per table when run returns.
C7_OneTablePerFragment ==
  SeparateTables(doc) =>
    /\ tinstr # <<>> => Cardinality(Opens(tinstr)) = 1 /\ Cardinality(Closes(tinstr)) = 1
    /\ ppc = "returned" => Len(new_blocks) = 3 * Cardinality(Opens(doc))

\* C9: run never pops from an empty list and returns a text for every
\* document; for a document with no table the text is the document.
C9_RunIsTotal ==
  /\ ppc # "IndexError"
  /\ (ppc = "returned" /\ findall(doc) = <<>>) => ppout = doc

(***************************************************************************)
(* The claim about the entity escaper (checked under SpecEscape).          *)
(***************************************************************************)
\* C6: in the result of one escape_latex_entities call on a text without
\* backslashes, every '%', '&' and '#' is preceded by exactly one backslash;
\* the '\&' made from '&amp;' is not escaped again.
C6_NoDoubleEscape ==
  epc = "returned" =>
    \A i \in 1..Len(eout) :
      eout[i] \in {"%", "&", "#"} =>
        /\ i >= 2
        /\ eout[i - 1] = "\\"
        /\ i >= 3 => eout[i - 2] # "\\"

(***************************************************************************)
(* The claim about the walker (checked under SpecWalk).                    *)
(***************************************************************************)
\* The text of an element as the rewrite rules state it: the fixed prefix, the
\* element's text (nothing for an element without text), the fixed suffix.
Payload(text) == IF text.none THEN <<>> ELSE text.s

RewrittenText(elem) ==
  LET t == Payload(elem.text)
      child(tag) == \E k \in 1..Len(elem.kids) : elem.kids[k].tag = tag
  IN  IF elem.tag = <<"h", "1">> THEN Text(<<"\n", "\\", "t", "i", "t", "l", "e", "{">> \o t \o <<"}", "\n">> \o maketitle)
      ELSE IF elem.tag = <<"h", "2">> THEN Text(<<"\n", "\\", "s", "e", "c", "t", "i", "o", "n", "{">> \o t \o <<"}", "\n">>)
      ELSE IF elem.tag = <<"h", "3">> THEN Text(<<"\n", "\\", "s", "u", "b", "s", "e", "c", "t", "i", "o", "n", "{">> \o t \o <<"}", "\n">>)
      ELSE IF elem.tag = <<"h", "4">> THEN Text(<<"\n", "\\", "s", "u", "b", "s", "u", "b", "s", "e", "c", "t", "i", "o", "n", "{">> \o t \o <<"}", "\n">>)
      ELSE IF elem.tag = <<"l", "i">> THEN Text(<<" ", " ", "\\", "i", "t", "e", "m", " ">> \o t)
      ELSE IF elem.tag = <<"p">> /\ ~child(<<"s", "u", "p">>) /\ ~child(<<"e", "m">>) THEN Text(t \o <<"\n">>)
      ELSE IF elem.tag = <<"e", "m">> THEN Text(<<"\\", "e", "m", "p", "h", "{">> \o t \o <<"}">>)
      ELSE elem.text

RECURSIVE ChildrenRewritten(_, _)
\* The children of `after` are those of `before`, each with its text rewritten.
ChildrenRewritten(before, after) ==
  /\ Len(after.kids) = Len(before.kids)
  /\ \A k \in 1..Len(before.kids) :
       /\ after.kids[k].tag = before.kids[k].tag
       /\ after.kids[k].text = RewrittenText(before.kids[k])
       /\ ChildrenRewritten(before.kids[k], after.kids[k])

\* C10: after the walk every non-root element has the text its tag's rule
\* makes of its text before the walk, an element without text contributing the
\* empty string; other elements and the root keep their text, and the tree
\* keeps its shape.
C10_WalkerRewrite ==
  wpc = "returned" =>
    /\ wroot.tag = wbefore.tag
    /\ wroot.text = wbefore.text
    /\ ChildrenRewritten(wbefore, wroot)


(***************************************************************************)
(* Claims about MathTextPostProcessor.run (lines 286-322).                 *)
(***************************************************************************)

\* t is s with a backslash put before every character whose index is in M.
BackslashBefore(s, t, M) ==
  LET shift(i) == Cardinality({j \in M : j < i})
  IN  /\ Len(t) = Len(s) + Cardinality(M)
      /\ \A i \in 1..Len(s) :
           IF i \in M
           THEN t[i + shift(i)] = "\\" /\ t[i + shift(i) + 1] = s[i]
           ELSE t[i + shift(i)] = s[i]

\* The indices at which "$$" occurs in s.
Doubles(s) == {i \in 1..(Len(s) - 1) : s[i] = "$" /\ s[i + 1] = "$"}

\* A '$' with a character that is not '$' on either side.
Flanked(s, i) ==
  s[i] = "$" /\ 1 < i /\ i < Len(s) /\ s[i - 1] # "$" /\ s[i + 1] # "$"

\* C3: in a text without "$$", after the currency step every '$' that has a
\* character other than '$' on either side stands as '\$', and every other
\* character is kept, also when two such dollars are one character apart.
C3_CurrencyRule ==
  (mpc = "pat2" /\ Doubles(instr) = {}) =>
    BackslashBefore(instr, out, {i \in 1..Len(instr) : Flanked(instr, i)})

\* A '%' that no backslash precedes and no whitespace-then-dash follows.
BarePercent(s, i) ==
  /\ s[i] = "%"
  /\ ~(i > 1 /\ s[i - 1] = "\\")
  /\ ~(i + 2 <= Len(s) /\ s[i + 1] \in Whitespace /\ s[i + 2] = "-")

\* C5: in a text without '$', after the percent step every '%' that is not
\* preceded by a backslash and not followed by whitespace and a dash stands as
\* '\%', and every other character, an escaped '\%' included, is kept.
C5_PercentRule ==
  (mpc = "percent" /\ \A i \in 1..Len(instr) : instr[i] # "$") =>
    BackslashBefore(instr, out, {i \in 1..Len(instr) : BarePercent(instr, i)})

\* The opening and the closing "$$" of the span of s.
SpanOpen(s) == CHOOSE p \in Doubles(s) : \A q \in Doubles(s) : p <= q
SpanClose(s) == CHOOSE q \in Doubles(s) : \A p \in Doubles(s) : p <= q

\* A '$' that is flanked, and two characters away from any other '$'.
Spaced(s, i) ==
  /\ Flanked(s, i)
  /\ i > 2 => s[i - 2] # "$"
  /\ i + 2 <= Len(s) => s[i + 2] # "$"

\* s holds exactly one '$$c$$' span, and its other dollars are currency signs.
OneSpan(s) ==
  /\ Doubles(s) # {}
  /\ SpanClose(s) >= SpanOpen(s) + 2
  /\ \A i \in 1..Len(s) :
       s[i] = "$" =>
         \/ i \in {SpanOpen(s), SpanOpen(s) + 1, SpanClose(s), SpanClose(s) + 1}
         \/ (i < SpanOpen(s) \/ i > SpanClose(s) + 1) /\ Spaced(s, i)

Before(s) == SubSeq(s, 1, SpanOpen(s) - 1)
Content(s) == SubSeq(s, SpanOpen(s) + 2, SpanClose(s) - 1)
After(s) == SubSeq(s, SpanClose(s) + 2, Len(s))

\* Only whitespace stands between the start of y and the end of its line.
BlankToLineEnd(y) ==
  IsBlank(y) \/ \E k \in 1..SpaceRunEnd(y, 1) : y[k] = "\n"

\* What `\s*$` leaves of y: nothing of a blank y, else y from the last newline
\* of its leading whitespace.
Rest(y) ==
  IF IsBlank(y) THEN <<>>
  ELSE LET k == CHOOSE k \in 1..SpaceRunEnd(y, 1) :
                  /\ y[k] = "\n"
                  /\ \A j \in (k + 1)..SpaceRunEnd(y, 1) : y[j] # "\n"
       IN  SubSeq(y, k, Len(y))

\* x ends where a line starts.
LineStart(x) == x = <<>> \/ x[Len(x)] = "\n"

\* The span is the sole content of its line, optionally preceded by '<p>'.
SoleLine(s) ==
  /\ BlankToLineEnd(After(s))
  /\ \/ LineStart(Before(s))
     \/ \E x \in {SubSeq(Before(s), 1, Len(Before(s)) - 3)} :
          Before(s) = x \o <<"<", "p", ">">> /\ LineStart(x)

\* The span has text before it or after it on its line.
MidSentence(s) ==
  \/ ~BlankToLineEnd(After(s))
  \/ ~LineStart(Before(s)) /\ ~EndsWith(Before(s), <<"<", "p", ">">>)

\* The text before a sole-line span, less the '<p>' the display step drops.
Kept(x) == IF EndsWith(x, <<"<", "p", ">">>) THEN SubSeq(x, 1, Len(x) - 3) ELSE x

\* The currency signs of x, escaped.
Cur(x) == Replace(x, <<"$">>, <<"\\", "$">>)

\* The display form of content c, u being what is emitted for c.
DisplayOf(c, u) ==
  IF StartsWith(Strip(c), <<"\\", "[">>) \/ StartsWith(Strip(c), <<"\\", "b", "e", "g", "i", "n">>)
  THEN u ELSE <<"\\", "[">> \o u \o <<"\\", "]">>

\* out is what the steps up to mpc make of a text with one span whose content
\* c is emitted as u.
SpanEmitted(s, u) ==
  /\ (mpc \in {"pat1", "pat2", "pat3"} /\ SoleLine(s)) =>
       out = IF mpc = "pat1"
             THEN Kept(Before(s)) \o DisplayOf(Content(s), u) \o Rest(After(s))
             ELSE Cur(Kept(Before(s))) \o DisplayOf(Content(s), u)
                    \o Cur(Rest(After(s)))
  /\ (mpc \in {"pat", "pat1", "pat2"} /\ MidSentence(s)) =>
       out = IF mpc = "pat2"
             THEN Cur(Before(s)) \o <<"$", "$">> \o Content(s) \o <<"$", "$">> \o Cur(After(s))
             ELSE s
  /\ (mpc = "pat3" /\ MidSentence(s)) =>
       out = Cur(Before(s)) \o <<"$">> \o u \o <<"$">> \o Cur(After(s))

====
